---- MODULE Spec2Model ----
(***************************************************************************)
(* Model of change_mdm.py: the interactive controller main(), the menu     *)
(* loop select_management_server(), the token issuer generate_jwt_token()  *)
(* and the API client operations search_device_by_serial(),                *)
(* get_mdm_servers() and assign_device_to_server().                        *)
(*                                                                         *)
(* Operator inputs are sequences of one-character strings so that strip(), *)
(* lower(), upper() and int() are computed, not assumed.  API responses    *)
(* are chosen by the environment.  Time is counted in minutes.             *)
(***************************************************************************)
EXTENDS Integers, Sequences, FiniteSets, TLC

\* ------------------------------------------------------------------ bounds
\* number of invalid menu inputs after which only valid ones are drawn
MaxMenuAttempts == 2
\* latest clock value (minutes) the operator may wait until
MaxClock == 40

\* ------------------------------------------------------- program constants
\* timedelta(minutes=20)
TOKEN_MINUTES == 20

ASM_API_BASE_URL == "https://api-school.apple.com/v1"

\* list(MDM_SERVERS.keys()): a dict keeps insertion order
servers == << "Mosyle Macs", "Mosyle iPads" >>

MDM_SERVERS == [name \in {"Mosyle Macs", "Mosyle iPads"} |-> "UDID_GOES_HERE"]

\* ------------------------------------------------------------ Python values
\* None, as a record so that it compares with records
None == [none |-> TRUE]

\* os.getenv() of an unset variable
PyNoneStr == "<None>"

\* the exit status of a process that has not exited
Running == -1

\* ------------------------------------------------------------ str methods
Whitespace == {" ", "\t"}

Digits == {"0", "1", "2", "3"}

DigitValue == [d \in Digits |-> CASE d = "0" -> 0 [] d = "1" -> 1 [] d = "2" -> 2 [] d = "3" -> 3]

UpperLetters == {"Y", "N", "C", "A"}

LowerLetters == {"y", "n", "c", "a", "e", "s"}

ToLower == [c \in UpperLetters |-> CASE c = "Y" -> "y" [] c = "N" -> "n" [] c = "C" -> "c" [] c = "A" -> "a"]

ToUpper == [c \in LowerLetters |-> CASE c = "y" -> "Y" [] c = "n" -> "N" [] c = "c" -> "C" [] c = "a" -> "A" [] c = "e" -> "E" [] c = "s" -> "S"]

RECURSIVE LStrip(_)
LStrip(s) == IF s # <<>> /\ Head(s) \in Whitespace THEN LStrip(Tail(s)) ELSE s

RECURSIVE RStrip(_)
RStrip(s) == IF s # <<>> /\ s[Len(s)] \in Whitespace THEN RStrip(SubSeq(s, 1, Len(s) - 1)) ELSE s

\* the input taken as typed
Strip_Missing(s) == s

\* str.strip()
Strip(s) == RStrip(LStrip(s))

\* str.lower()
Lower(s) == [i \in 1..Len(s) |-> IF s[i] \in UpperLetters THEN ToLower[s[i]] ELSE s[i]]

\* str.upper()
Upper(s) == [i \in 1..Len(s) |-> IF s[i] \in LowerLetters THEN ToUpper[s[i]] ELSE s[i]]

\* int(str): surrounding whitespace dropped, one optional sign, then digits
Unsigned(s) == IF s # <<>> /\ Head(s) \in {"+", "-"} THEN Tail(s) ELSE s

IsIntLiteral(s) ==
    LET u == Unsigned(Strip(s))
    IN  u # <<>> /\ \A i \in 1..Len(u) : u[i] \in Digits

RECURSIVE DigitsValue(_)
DigitsValue(u) == IF u = <<>> THEN 0 ELSE 10 * DigitsValue(SubSeq(u, 1, Len(u) - 1)) + DigitValue[u[Len(u)]]

IntValue(s) ==
    LET t == Strip(s)
        v == DigitsValue(Unsigned(t))
    IN  IF Head(t) = "-" THEN 0 - v ELSE v

\* `not x` for a str-or-None configuration value
FalsyStr(x) == x = PyNoneStr \/ x = ""

\* truth value of a parsed JSON object or None
Truthy(v) == v # None /\ v.members # {}

\* --------------------------------------------------------- the environment
\* process configuration: ASM_KEY_ID, ASM_ISSUER_ID, the key file, PyJWT
KeyIdValues == {PyNoneStr, "", "KEY1"}

IssuerIdValues == {PyNoneStr, "", "ISS1"}

KeyFileStates == {"missing", "unreadable", "malformed", "ok"}

Configs == [KEY_ID : KeyIdValues, ISSUER_ID : IssuerIdValues, keyFile : KeyFileStates, pyjwt : BOOLEAN]

\* lines the operator may type
SerialInputs == { <<>>, <<" ">>, <<"\t", " ">>, <<"c", "0", "2">>, <<" ", "C", "0", "2", " ">>, <<"a", "1">> }

MenuInputs == { <<>>, <<" ">>, <<"0">>, <<"1">>, <<"2">>, <<"3">>, <<" ", "2", " ">>, <<"+", "1">>,
                <<"-", "1">>, <<"0", "2">>, <<"1", "2">>, <<"a">>, <<"1", "a">>, <<"1", " ", "2">>, <<"+">> }

ConfirmInputs == { <<>>, <<" ">>, <<"y">>, <<"Y">>, <<" ", "y", "\t">>, <<"y", "e", "s">>, <<"n">>, <<"N">>, <<"y", "y">>, <<"y", " ", "y">> }

\* device records the API may return
Device(id) == [members |-> {"id", "attributes"}, id |-> id]

DeviceIds == {"1001", "1002"}

\* parsed JSON documents: a set of member names and the "data" member
EmptyObject == [members |-> {}, data |-> <<>>]

Document(data) == [members |-> {"data"}, data |-> data]

DataLists == { <<>>, <<Device("1001")>>, <<Device("1002"), Device("1001")>> }

\* response bodies: not JSON at all, or a JSON document
Bodies == { [json |-> FALSE] } \cup { [json |-> TRUE, value |-> EmptyObject] }
            \cup { [json |-> TRUE, value |-> Document(d)] : d \in DataLists }

Statuses == {200, 304, 404, 500}

\* what requests.get / requests.patch may produce: an exception raised by
\* the transport, or a response with a status and a body
Responses == { [kind |-> "transport"] } \cup [kind : {"http"}, status : Statuses, body : Bodies]

\* ------------------------------------------------------------------- state
VARIABLES pc, cfg, now, serial_raw, serial_number, device, search_resp, menu_raw, server_name, server_id, confirm_raw, assign_resp, list_resp, result, server_list, requests, tokens, keyLoads, out, steps, exit_code

vars == << pc, cfg, now, serial_raw, serial_number, device, search_resp, menu_raw, server_name, server_id, confirm_raw, assign_resp, list_resp, result, server_list, requests, tokens, keyLoads, out, steps, exit_code >>

StepNames == {"check_environment", "read_serial", "search", "display_device", "menu_prompt", "confirm_prompt", "assign"}

\* a value no response and no result has
Unset == [unset |-> TRUE]

\* a line no operator has typed
NoInput == << "<no input>" >>

\* the state in which control is at position p and nothing has happened
InitAt(p) ==
    /\ pc = p
    /\ cfg \in Configs
    /\ now = 0
    /\ serial_raw = NoInput
    /\ serial_number = NoInput
    /\ device = Unset
    /\ search_resp = Unset
    /\ menu_raw = NoInput
    /\ server_name = ""
    /\ server_id = ""
    /\ confirm_raw = NoInput
    /\ assign_resp = Unset
    /\ list_resp = Unset
    /\ result = Unset
    /\ server_list = <<>>
    /\ requests = <<>>
    /\ tokens = <<>>
    /\ keyLoads = 0
    /\ out = <<>>
    /\ steps = [n \in StepNames |-> 0]
    /\ exit_code = Running

\* `if __name__ == "__main__": main()`
Init == InitAt("check_environment")

\* --------------------------------------------------------- pure functions
\* check_environment(): which message it exits with, or "ok"
check_environment_SkipsIssuer(c) == IF FalsyStr(c.KEY_ID) THEN "key_id_not_set" ELSE "ok"

check_environment(c) ==
    IF FalsyStr(c.KEY_ID) THEN "key_id_not_set"
    ELSE IF FalsyStr(c.ISSUER_ID) THEN "issuer_id_not_set"
    ELSE "ok"

\* load_private_key(): "ok" when the file's text is returned
load_private_key(c) ==
    IF c.keyFile = "missing" THEN "key_file_not_found"
    ELSE IF c.keyFile = "unreadable" THEN "error_loading_key"
    ELSE "ok"

\* the payload and header generate_jwt_token() signs at time t
generate_jwt_token_ShortLived(c, t) ==
    [iss |-> c.ISSUER_ID, iat |-> t, exp |-> t + 2,
     aud |-> "https://account.apple.com/auth/oauth2/v2/token", kid |-> c.KEY_ID, alg |-> "ES256"]

generate_jwt_token(c, t) ==
    [iss |-> c.ISSUER_ID, iat |-> t, exp |-> t + TOKEN_MINUTES,
     aud |-> "https://account.apple.com/auth/oauth2/v2/token", kid |-> c.KEY_ID, alg |-> "ES256"]

\* how a call of generate_jwt_token() ends
TokenOutcome(c) ==
    IF ~c.pyjwt THEN "pyjwt_not_installed"
    ELSE IF load_private_key(c) # "ok" THEN load_private_key(c)
    ELSE IF c.keyFile = "malformed" THEN "signing_error"
    ELSE "ok"

\* get_auth_headers()
get_auth_headers(c, t) ==
    [Authorization |-> generate_jwt_token(c, t), ContentType |-> "application/json", Accept |-> "application/json"]

\* response.raise_for_status(): HTTPError for 4xx and 5xx
RaisesForStatus_ServerErrorsOnly(status) == 500 <= status /\ status < 600

RaisesForStatus(status) == 400 <= status /\ status < 600

\* the try block raised a requests.exceptions.RequestException, which the
\* except clause catches; jsonErrCaught says whether the installed requests
\* raises its own JSONDecodeError (a RequestException) from response.json()
Caught(resp, jsonErrCaught) ==
    \/ resp.kind = "transport"
    \/ RaisesForStatus(resp.status)
    \/ (~resp.body.json /\ jsonErrCaught)

\* response.json() raised a plain ValueError, which nothing catches
Uncaught(resp, jsonErrCaught) ==
    /\ resp.kind = "http"
    /\ ~RaisesForStatus(resp.status)
    /\ ~resp.body.json
    /\ ~jsonErrCaught

\* the value search_device_by_serial() returns when nothing propagates
search_result(resp, jsonErrCaught) ==
    IF Caught(resp, jsonErrCaught) THEN None
    ELSE LET data == resp.body.value
         IN  IF "data" \in data.members /\ Len(data.data) > 0 THEN data.data[1] ELSE None

\* the value get_mdm_servers() returns when nothing propagates
get_mdm_servers_result(resp, jsonErrCaught) ==
    IF Caught(resp, jsonErrCaught) THEN <<>>
    ELSE LET data == resp.body.value
         IN  IF "data" \in data.members THEN data.data ELSE <<>>

\* the value assign_device_to_server() returns when nothing propagates
assign_result(resp, jsonErrCaught) ==
    IF Caught(resp, jsonErrCaught) THEN None ELSE resp.body.value

\* the PATCH body and URL of assign_device_to_server(device_id, server_id)
assign_payload(device_id, srv_id) ==
    [data |-> [type |-> "devices", id |-> device_id, attributes |-> [deviceManagementServerId |-> srv_id]]]

assign_url(device_id) == << ASM_API_BASE_URL, "devices", device_id >>

search_url == << ASM_API_BASE_URL, "devices" >>

servers_url == << ASM_API_BASE_URL, "device-management-servers" >>

\* requests.get(...) / requests.patch(...): one request goes out
Send_Retry(reqs, r) == Append(Append(reqs, r), r)

Send(reqs, r) == Append(reqs, r)

\* `if not serial_number`
SerialEmpty(s) == s = <<>>

\* `if not device`: the exit status main() ends with, or Running
main_after_search_ExitsZero(d) == IF ~Truthy(d) THEN 0 ELSE Running

main_after_search(d) == IF ~Truthy(d) THEN 1 ELSE Running

\* `1 <= choice_num <= len(servers)`
InRange_NoLowerBound(n) == n <= Len(servers)

InRange(n) == 1 <= n /\ n <= Len(servers)

\* servers[i] with Python's indexing (negative i counts from the end)
PyIndex(seq, i) == IF i >= 0 THEN seq[i + 1] ELSE seq[Len(seq) + i + 1]

\* the input select_management_server() returns on
ValidChoice(s) == IsIntLiteral(Strip(s)) /\ InRange(IntValue(Strip(s)))

\* `confirm != 'y'` negated
Confirmed_Prefix(s) == Lower(Strip(s)) # <<>> /\ Head(Lower(Strip(s))) = "y"

Confirmed(s) == Lower(Strip(s)) = <<"y">>

\* ----------------------------------------------------------------- actions
Bump(n) == [steps EXCEPT ![n] = @ + 1]

\* main(), lines 180-184: banner, then check_environment()
main_check_environment ==
    /\ pc = "check_environment"
    /\ steps' = Bump("check_environment")
    /\ LET r == check_environment(cfg)
       IN  IF r = "ok"
           THEN /\ pc' = "read_serial"
                /\ exit_code' = exit_code
                /\ out' = out \o <<"banner">>
           ELSE /\ pc' = "exited"
                /\ exit_code' = 1
                /\ out' = out \o <<"banner", r>>
    /\ UNCHANGED << cfg, now, serial_raw, serial_number, device, search_resp, menu_raw, server_name, server_id, confirm_raw, assign_resp, list_resp, result, server_list, requests, tokens, keyLoads >>

\* main(), lines 187-193: read the serial number, reject the empty one
main_read_serial ==
    /\ pc = "read_serial"
    /\ steps' = Bump("read_serial")
    /\ \E s \in SerialInputs :
        /\ serial_raw' = s
        /\ serial_number' = Upper(Strip(s))
        /\ IF SerialEmpty(serial_number')
           THEN /\ pc' = "exited"
                /\ exit_code' = 1
                /\ out' = out \o <<"serial_empty">>
           ELSE /\ pc' = "search"
                /\ exit_code' = exit_code
                /\ out' = out \o <<"searching">>
    /\ UNCHANGED << cfg, now, device, search_resp, menu_raw, server_name, server_id, confirm_raw, assign_resp, list_resp, result, server_list, requests, tokens, keyLoads >>

\* search_device_by_serial(serial_number) and main(), lines 196-215, up to
\* the first menu prompt
search_device_by_serial ==
    /\ pc = "search"
    /\ IF TokenOutcome(cfg) # "ok"
       THEN \* sys.exit(1) in generate_jwt_token / load_private_key, or an
            \* exception of jwt.encode that nothing catches
            /\ pc' = "exited"
            /\ exit_code' = 1
            /\ out' = out \o << TokenOutcome(cfg) >>
            /\ keyLoads' = IF cfg.pyjwt THEN keyLoads + 1 ELSE keyLoads
            /\ steps' = Bump("search")
            /\ UNCHANGED << device, search_resp, requests, tokens >>
       ELSE \E resp \in Responses, jsonErrCaught \in BOOLEAN :
            LET headers == get_auth_headers(cfg, now)
                d == search_result(resp, jsonErrCaught)
                err == IF Caught(resp, jsonErrCaught) THEN <<"error_searching">> ELSE <<>>
            IN  /\ keyLoads' = keyLoads + 1
                /\ tokens' = Append(tokens, headers.Authorization)
                /\ requests' = Send(requests, [method |-> "GET", url |-> search_url,
                                                 params |-> [serialNumber |-> serial_number],
                                                 headers |-> headers, sentAt |-> now])
                /\ search_resp' = resp
                /\ IF Uncaught(resp, jsonErrCaught)
                   THEN /\ pc' = "exited"
                        /\ exit_code' = 1
                        /\ out' = out \o <<"traceback">>
                        /\ steps' = Bump("search")
                        /\ device' = device
                   ELSE /\ device' = d
                        /\ exit_code' = main_after_search(d)
                        /\ IF main_after_search(d) # Running
                           THEN /\ pc' = "exited"
                                /\ out' = out \o err \o <<"device_not_found">>
                                /\ steps' = Bump("search")
                           ELSE /\ pc' = "menu_prompt"
                                /\ out' = out \o err \o <<"device_found", "menu">>
                                /\ steps' = [steps EXCEPT !["search"] = @ + 1, !["display_device"] = @ + 1]
    /\ UNCHANGED << cfg, now, serial_raw, serial_number, menu_raw, server_name, server_id, confirm_raw, assign_resp, list_resp, result, server_list >>

\* select_management_server(): one pass of the `while True` loop
select_management_server ==
    /\ pc = "menu_prompt"
    /\ \E s \in MenuInputs :
        /\ ValidChoice(s) \/ steps["menu_prompt"] < MaxMenuAttempts
        /\ menu_raw' = s
        /\ steps' = Bump("menu_prompt")
        /\ IF ~IsIntLiteral(Strip(s))
           THEN /\ out' = out \o <<"enter_valid_number">>
                /\ UNCHANGED << pc, server_name, server_id >>
           ELSE IF ~InRange(IntValue(Strip(s)))
           THEN /\ out' = out \o <<"enter_number_in_range">>
                /\ UNCHANGED << pc, server_name, server_id >>
           ELSE /\ server_name' = PyIndex(servers, IntValue(Strip(s)) - 1)
                /\ server_id' = MDM_SERVERS[server_name']
                /\ out' = out \o <<"selected">>
                /\ pc' = "confirm_prompt"
    /\ UNCHANGED << cfg, now, serial_raw, serial_number, device, search_resp, confirm_raw, assign_resp, list_resp, result, server_list, requests, tokens, keyLoads, exit_code >>

\* main(), lines 218-225: the confirmation gate
main_confirm ==
    /\ pc = "confirm_prompt"
    /\ steps' = Bump("confirm_prompt")
    /\ \E s \in ConfirmInputs :
        /\ confirm_raw' = s
        /\ IF ~Confirmed(s)
           THEN /\ pc' = "exited"
                /\ exit_code' = 0
                /\ out' = out \o <<"cancelled">>
           ELSE /\ pc' = "assign"
                /\ exit_code' = exit_code
                /\ out' = out \o <<"assigning">>
    /\ UNCHANGED << cfg, now, serial_raw, serial_number, device, search_resp, menu_raw, server_name, server_id, assign_resp, list_resp, result, server_list, requests, tokens, keyLoads >>

\* assign_device_to_server(device_id, server_id) and main(), lines 227-234
assign_device_to_server ==
    /\ pc = "assign"
    /\ steps' = Bump("assign")
    /\ pc' = "exited"
    /\ IF TokenOutcome(cfg) # "ok"
       THEN /\ exit_code' = 1
            /\ out' = out \o << TokenOutcome(cfg) >>
            /\ keyLoads' = IF cfg.pyjwt THEN keyLoads + 1 ELSE keyLoads
            /\ UNCHANGED << assign_resp, result, requests, tokens >>
       ELSE \E resp \in Responses, jsonErrCaught \in BOOLEAN :
            LET headers == get_auth_headers(cfg, now)
                r == assign_result(resp, jsonErrCaught)
                err == IF Caught(resp, jsonErrCaught) THEN <<"error_assigning">> ELSE <<>>
            IN  /\ keyLoads' = keyLoads + 1
                /\ tokens' = Append(tokens, headers.Authorization)
                /\ requests' = Send(requests, [method |-> "PATCH", url |-> assign_url(device.id),
                                                 json |-> assign_payload(device.id, server_id),
                                                 headers |-> headers, sentAt |-> now])
                /\ assign_resp' = resp
                /\ IF Uncaught(resp, jsonErrCaught)
                   THEN /\ exit_code' = 1
                        /\ out' = out \o <<"traceback">>
                        /\ result' = result
                   ELSE /\ result' = r
                        /\ IF Truthy(r)
                           THEN /\ exit_code' = 0
                                /\ out' = out \o err \o <<"success">>
                           ELSE /\ exit_code' = 1
                                /\ out' = out \o err \o <<"failed_to_assign">>
    /\ UNCHANGED << cfg, now, serial_raw, serial_number, device, search_resp, menu_raw, server_name, server_id, confirm_raw, list_resp, server_list >>

\* the operator takes time at a blocking input()
Wait ==
    /\ pc \in {"read_serial", "menu_prompt", "confirm_prompt"}
    /\ now + TOKEN_MINUTES \div 2 <= MaxClock
    /\ now' = now + TOKEN_MINUTES \div 2
    /\ UNCHANGED << pc, cfg, serial_raw, serial_number, device, search_resp, menu_raw, server_name, server_id, confirm_raw, assign_resp, list_resp, result, server_list, requests, tokens, keyLoads, out, steps, exit_code >>

Next ==
    \/ main_check_environment
    \/ main_read_serial
    \/ search_device_by_serial
    \/ select_management_server
    \/ main_confirm
    \/ assign_device_to_server
    \/ Wait

Spec == Init /\ [][Next]_vars

\* get_mdm_servers(), which main() does not call, called by a client that
\* imports the module
get_mdm_servers ==
    /\ pc = "client"
    /\ IF TokenOutcome(cfg) # "ok"
       THEN /\ pc' = "exited"
            /\ exit_code' = 1
            /\ out' = out \o << TokenOutcome(cfg) >>
            /\ keyLoads' = IF cfg.pyjwt THEN keyLoads + 1 ELSE keyLoads
            /\ UNCHANGED << list_resp, server_list, requests, tokens >>
       ELSE \E resp \in Responses, jsonErrCaught \in BOOLEAN :
            LET headers == get_auth_headers(cfg, now)
            IN  /\ keyLoads' = keyLoads + 1
                /\ tokens' = Append(tokens, headers.Authorization)
                /\ requests' = Send(requests, [method |-> "GET", url |-> servers_url,
                                               headers |-> headers, sentAt |-> now])
                /\ list_resp' = resp
                /\ IF Uncaught(resp, jsonErrCaught)
                   THEN /\ pc' = "exited"
                        /\ exit_code' = 1
                        /\ out' = out \o <<"traceback">>
                        /\ server_list' = server_list
                   ELSE /\ pc' = "returned"
                        /\ exit_code' = exit_code
                        /\ out' = out \o (IF Caught(resp, jsonErrCaught) THEN <<"error_fetching">> ELSE <<>>)
                        /\ server_list' = get_mdm_servers_result(resp, jsonErrCaught)
    /\ UNCHANGED << cfg, now, serial_raw, serial_number, device, search_resp, menu_raw, server_name, server_id, confirm_raw, assign_resp, result, steps >>

\* the script run, or the module imported and get_mdm_servers() called
InitApi == InitAt("check_environment") \/ InitAt("client")

NextApi == Next \/ get_mdm_servers

SpecApi == InitApi /\ [][NextApi]_vars


\* ------------------------------------------------------------- properties
\* what the properties say about inputs and responses is written here from
\* the typed characters and the status codes, not with the operators above

NonBlank(s) == { i \in 1..Len(s) : s[i] \notin Whitespace }

\* the typed line is a single y or Y with whitespace around it
TypedYes(s) == Cardinality(NonBlank(s)) = 1 /\ \E i \in NonBlank(s) : s[i] \in {"y", "Y"}

\* the typed line is empty or whitespace only
TypedBlank(s) == NonBlank(s) = {}

\* the typed line without the whitespace around it
Core(s) ==
    IF NonBlank(s) = {} THEN <<>>
    ELSE LET lo == CHOOSE i \in NonBlank(s) : \A j \in NonBlank(s) : i <= j
             hi == CHOOSE i \in NonBlank(s) : \A j \in NonBlank(s) : j <= i
         IN  SubSeq(s, lo, hi)

\* the typed line is the decimal numeral of k: an optional sign +, zeros, k
TypedNumber(s, k) ==
    LET c == Core(s)
        u == IF c # <<>> /\ c[1] = "+" THEN SubSeq(c, 2, Len(c)) ELSE c
    IN  /\ u # <<>>
        /\ \A i \in 1..(Len(u) - 1) : u[i] = "0"
        /\ u[Len(u)] \in Digits
        /\ DigitValue[u[Len(u)]] = k

\* the menu entry the typed line selects, 0 if none
TypedChoice(s) ==
    IF \E k \in 1..Len(servers) : TypedNumber(s, k)
    THEN CHOOSE k \in 1..Len(servers) : TypedNumber(s, k)
    ELSE 0

Patches == { i \in 1..Len(requests) : requests[i].method = "PATCH" }

Printed(m) == \E i \in 1..Len(out) : out[i] = m

Is2xx(resp) == resp.kind = "http" /\ resp.status \in 200..299

\* C1: a confirmation line that is not exactly y (any case, whitespace
\* around it) ends the run with exit status 0, assign_device_to_server is
\* not called and no PATCH is sent.
C1_CancelUnlessY ==
    (steps["confirm_prompt"] > 0 /\ ~TypedYes(confirm_raw)) =>
        /\ pc = "exited"
        /\ exit_code = 0
        /\ steps["assign"] = 0
        /\ Patches = {}

C1_Witness ==
    /\ confirm_raw = <<"y", "e", "s">>
    /\ exit_code = 0
    /\ Printed("cancelled")

\* the API answered the search with a 2xx document whose result set is
\* empty or absent
EmptyResultSet(resp) ==
    /\ Is2xx(resp)
    /\ resp.body.json
    /\ ("data" \notin resp.body.value.members \/ resp.body.value.data = <<>>)

\* C2: when the search returns no device, the run ends with exit status 1
\* and select_management_server is not entered: no menu is printed, no menu
\* or confirmation line is read and no PATCH is sent.
C2_NotFoundExitsBeforeMenu ==
    (device = None \/ (search_resp # Unset /\ EmptyResultSet(search_resp))) =>
        /\ device = None
        /\ pc = "exited"
        /\ exit_code = 1
        /\ ~Printed("menu")
        /\ steps["menu_prompt"] = 0
        /\ steps["confirm_prompt"] = 0
        /\ Patches = {}

C2_Witness ==
    /\ search_resp # Unset
    /\ EmptyResultSet(search_resp)
    /\ "data" \in search_resp.body.value.members
    /\ exit_code = 1
    /\ Printed("device_not_found")

\* C3: with the key id and the issuer id configured, a serial line that is
\* empty after stripping ends the run at once with exit status 1: no token
\* is minted, the key file is not read, no request is sent.
C3_EmptySerialExits ==
    (cfg.KEY_ID = "KEY1" /\ cfg.ISSUER_ID = "ISS1" /\ steps["read_serial"] > 0 /\ TypedBlank(serial_raw)) =>
        /\ pc = "exited"
        /\ exit_code = 1
        /\ steps["search"] = 0
        /\ tokens = <<>>
        /\ keyLoads = 0
        /\ requests = <<>>

C3_Witness ==
    /\ serial_raw = <<"\t", " ">>
    /\ exit_code = 1
    /\ Printed("serial_empty")

\* C4: a pass of the menu loop on a line that is not the numeral of an
\* entry 1..N prints a message and prompts again, the run going on; the
\* loop is left only on the numeral of some k in 1..N, with the k-th
\* displayed name and the id mapped to that name.
C4_MenuLoop ==
    [][ (pc = "menu_prompt" /\ steps'["menu_prompt"] = steps["menu_prompt"] + 1) =>
            LET k == TypedChoice(menu_raw')
            IN  IF k = 0
                THEN /\ pc' = "menu_prompt"
                     /\ exit_code' = Running
                     /\ Len(out') = Len(out) + 1
                     /\ out'[Len(out')] \in {"enter_valid_number", "enter_number_in_range"}
                     /\ server_name' = server_name
                     /\ server_id' = server_id
                ELSE /\ pc' = "confirm_prompt"
                     /\ exit_code' = Running
                     /\ server_name' = servers[k]
                     /\ server_id' = MDM_SERVERS[servers[k]]
      ]_vars

C4_Witness ==
    /\ pc = "confirm_prompt"
    /\ steps["menu_prompt"] = 3
    /\ menu_raw = <<" ", "2", " ">>
    /\ server_name = "Mosyle iPads"
    /\ Printed("enter_valid_number")
    /\ Printed("enter_number_in_range")

\* the request body the claim spells out for device id d and server id m
PatchBody(d, m) == [data |-> [type |-> "devices", id |-> d, attributes |-> [deviceManagementServerId |-> m]]]

\* in a confirmed run the one PATCH goes to /devices/{id} of the device the
\* search returned, with the body of that id and of the id mapped to the
\* selected entry
AssignmentRequestShape ==
    (steps["assign"] = 1) =>
        LET found == search_resp.body.value.data[1]
            k == TypedChoice(menu_raw)
        IN  /\ Cardinality(Patches) = 1
            /\ \A i \in Patches :
                /\ requests[i].url = << "https://api-school.apple.com/v1", "devices", found.id >>
                /\ requests[i].json = PatchBody(found.id, MDM_SERVERS[servers[k]])

\* C5: in a run that finds a device, selects entry k and confirms y, the one
\* PATCH goes to /devices/{id} of the found device with the body of that id
\* and of the id mapped to entry k, and if the PATCH succeeds the run prints
\* the success message and exits 0.
C5_AssignmentEndToEnd ==
    (pc = "exited" /\ steps["assign"] = 1 /\ TypedYes(confirm_raw)) =>
        /\ AssignmentRequestShape
        /\ (Is2xx(assign_resp) /\ assign_resp.body.json) => (Printed("success") /\ exit_code = 0)

\* C6: after a confirmed assignment call the run prints success and exits 0
\* whenever the PATCH got a 2xx response with a parsed body, whatever the
\* body; it exits 1 only when the call failed in transport or by status;
\* exit status 0 comes only from a success or a cancel.
C6_ExitStatusOfAssignment ==
    /\ (pc = "exited" /\ steps["assign"] = 1) =>
        /\ (Is2xx(assign_resp) /\ assign_resp.body.json) => (exit_code = 0 /\ Printed("success"))
        /\ exit_code = 1 => ~(Is2xx(assign_resp) /\ assign_resp.body.json)
    /\ exit_code = 0 => (Printed("success") \/ Printed("cancelled"))

\* C7 as claimed: any missing configuration (key file, key id, issuer id)
\* ends the run with a non-zero status before the serial prompt and before
\* any network call.
C7_ConfigCheckedFirst ==
    (cfg.keyFile = "missing" \/ cfg.KEY_ID = PyNoneStr \/ cfg.ISSUER_ID = PyNoneStr) =>
        /\ steps["read_serial"] = 0
        /\ requests = <<>>
        /\ pc = "exited" => exit_code \notin {0, Running}

\* C7 as amended: an unset key id or issuer id ends the run with status 1 in
\* check_environment, before the serial prompt and before any network call;
\* a missing key file ends it with status 1 before any network call, but
\* only when the first token is minted, after the serial prompt.
C7_IdsCheckedFirst ==
    /\ (cfg.KEY_ID \in {PyNoneStr, ""} \/ cfg.ISSUER_ID \in {PyNoneStr, ""}) =>
        /\ steps["read_serial"] = 0
        /\ requests = <<>>
        /\ tokens = <<>>
        /\ pc # "check_environment" => (pc = "exited" /\ exit_code = 1)
    /\ cfg.keyFile = "missing" =>
        /\ requests = <<>>
        /\ tokens = <<>>
        /\ steps["display_device"] = 0
        /\ pc = "exited" => exit_code = 1
        /\ Printed("key_file_not_found") => steps["read_serial"] = 1

C7_Witness ==
    /\ cfg.keyFile = "missing"
    /\ steps["read_serial"] = 1
    /\ steps["search"] = 1
    /\ exit_code = 1
    /\ Printed("key_file_not_found")

\* C8: every request carries the token minted for it in the same operation,
\* at the time the request is sent: one mint per request, expiry 20 minutes
\* after issued-at, algorithm ES256, expiry after the time of sending.
C8_FreshToken ==
    /\ Len(tokens) = Len(requests)
    /\ \A i \in 1..Len(requests) :
        LET tk == requests[i].headers.Authorization
        IN  /\ tk = tokens[i]
            /\ tk.iat = requests[i].sentAt
            /\ tk.exp = tk.iat + 20
            /\ tk.alg = "ES256"
            /\ tk.exp > requests[i].sentAt

C8_Witness ==
    /\ Len(requests) = 2
    /\ requests[1].sentAt = 0
    /\ requests[2].sentAt >= 40
    /\ requests[2].method = "PATCH"

\* C9: the requests of a run are a prefix of [search GET, device PATCH], the
\* PATCH only after the search returned a device, the list-servers endpoint
\* never called, and no step but the menu prompt taken twice.
C9_LinearRun ==
    /\ Len(requests) <= 2
    /\ Len(requests) >= 1 =>
        /\ requests[1].method = "GET"
        /\ requests[1].url = << "https://api-school.apple.com/v1", "devices" >>
    /\ Len(requests) = 2 =>
        /\ requests[2].method = "PATCH"
        /\ Len(requests[2].url) = 3
        /\ requests[2].url[2] = "devices"
        /\ device \notin {None, Unset}
    /\ \A i \in 1..Len(requests) : requests[i].url[2] # "device-management-servers"
    /\ \A n \in StepNames \ {"menu_prompt"} : steps[n] <= 1

C9_Witness ==
    /\ Len(requests) = 2
    /\ steps["menu_prompt"] = 3
    /\ pc = "exited"

\* the request failed as the claim has it: a network exception or a
\* response that is not 2xx
FailedNon2xx(resp) == resp # Unset /\ (resp.kind = "transport" \/ resp.status \notin 200..299)

\* the request failed: a network exception or a 4xx or 5xx response
FailedByStatus(resp) == resp # Unset /\ (resp.kind = "transport" \/ resp.status \in 400..599)

\* C10 as claimed: on a network exception or a non-2xx response the search
\* returns None, the listing an empty list and the assignment None, each
\* after printing an error and none propagating; main then ends a failed
\* search like a not-found (exit 1, no menu) and a failed assignment with 1.
C10_FailuresAbsorbedNon2xx ==
    /\ FailedNon2xx(search_resp) =>
        (device = None /\ Printed("error_searching") /\ ~Printed("traceback")
            /\ pc = "exited" /\ exit_code = 1 /\ ~Printed("menu") /\ Printed("device_not_found"))
    /\ FailedNon2xx(list_resp) =>
        (pc = "returned" /\ server_list = <<>> /\ Printed("error_fetching") /\ ~Printed("traceback"))
    /\ FailedNon2xx(assign_resp) =>
        (result = None /\ Printed("error_assigning") /\ ~Printed("traceback")
            /\ pc = "exited" /\ exit_code = 1)

\* C10 as amended: the same, for a network exception or a 4xx or 5xx
\* response.
C10_FailuresAbsorbed ==
    /\ FailedByStatus(search_resp) =>
        (device = None /\ Printed("error_searching") /\ ~Printed("traceback")
            /\ pc = "exited" /\ exit_code = 1 /\ ~Printed("menu") /\ Printed("device_not_found"))
    /\ FailedByStatus(list_resp) =>
        (pc = "returned" /\ server_list = <<>> /\ Printed("error_fetching") /\ ~Printed("traceback"))
    /\ FailedByStatus(assign_resp) =>
        (result = None /\ Printed("error_assigning") /\ ~Printed("traceback")
            /\ pc = "exited" /\ exit_code = 1)

C10_Witness ==
    /\ assign_resp # Unset
    /\ assign_resp.kind = "http"
    /\ assign_resp.status = 500
    /\ assign_resp.body.json
    /\ assign_resp.body.value.members # {}
    /\ result = None
    /\ exit_code = 1

====
